---------------------------- MODULE Spec2Model ----------------------------
(***************************************************************************)
(* The file-system cache of infinyon/rust-cache: saveCache / restoreCache  *)
(* over the persisted layout                                               *)
(*   <cacheDir>/cache/<repository>/<fingerprint>/<key>/<cacheFileName>     *)
(* The repository holds two modules that implement this layout:            *)
(*   "fsCache" : src/src/fsCache/index.ts                                  *)
(*   "part000" : src/unnamed/part_000                                      *)
(* cacheDir is deployment configuration (an environment variable with a    *)
(* default), so a call of either module can be served against one root.    *)
(* Strings are sequences of one-character strings, so that length, comma,  *)
(* separator and path-segment tests are computed as the code computes them.*)
(* Six specifications: Spec (calls made one after the other), SpecConc      *)
(* (calls interleaved at their awaits), SpecKeys (interleaved calls whose    *)
(* keys differ), SpecPlatform (calls made on different platforms),           *)
(* SpecOrder (calls whose paths come in different orders) and SpecCodec      *)
(* (the key codec alone).                                                    *)
(***************************************************************************)
EXTENDS Integers, Sequences, FiniteSets, TLC

(***************************************************************************)
(* String literals of the code                                             *)
(***************************************************************************)
Cache == <<"c","a","c","h","e">>
Repository == <<"o","/","r">>
versionSalt == <<"1",".","0">>
Zstd == <<"z","s","t","d">>
Gzip == <<"g","z","i","p">>
WindowsOnly == <<"w","i","n","d","o","w","s","-","o","n","l","y">>
ManifestName == <<"m","a","n","i","f","e","s","t",".","t","x","t">>
CacheTzst == <<"c","a","c","h","e",".","t","z","s","t">>
CacheTgz == <<"c","a","c","h","e",".","t","g","z">>
Slash == "/"
Bar == "|"
Comma == ","
DotDot == <<".",".">>
Dot == <<".">>

MaxKeyLen == 512
MaxKeys == 10

(***************************************************************************)
(* Array.prototype.join and the path resolution of path.join / the file    *)
(* system: split on "/", drop "" and ".", let ".." pop the last segment.   *)
(***************************************************************************)
RECURSIVE Join(_, _)
Join(parts, sep) ==
    IF Len(parts) = 0 THEN <<>>
    ELSE IF Len(parts) = 1 THEN parts[1]
    ELSE parts[1] \o <<sep>> \o Join(Tail(parts), sep)

\* s.split("/"): the pieces between the separators, empty pieces included.
SepPositions(s) == {i \in 1..Len(s) : s[i] = Slash}
NthSep(s, n) == CHOOSE i \in SepPositions(s) :
                    Cardinality({j \in SepPositions(s) : j <= i}) = n
Split(s) ==
    LET k == Cardinality(SepPositions(s)) IN
    [j \in 1..(k + 1) |->
        SubSeq(s, IF j = 1 THEN 1 ELSE NthSep(s, j - 1) + 1,
                  IF j = k + 1 THEN Len(s) ELSE NthSep(s, j) - 1)]

RECURSIVE NormalizeFrom(_, _, _)
NormalizeFrom(segs, i, acc) ==
    IF i > Len(segs) THEN acc
    ELSE IF segs[i] = <<>> \/ segs[i] = Dot THEN NormalizeFrom(segs, i + 1, acc)
    ELSE IF segs[i] = DotDot
         THEN NormalizeFrom(segs, i + 1,
                            IF Len(acc) = 0 THEN acc ELSE SubSeq(acc, 1, Len(acc) - 1))
    ELSE NormalizeFrom(segs, i + 1, Append(acc, segs[i]))

(***************************************************************************)
(* KeyCodec: getCacheVersion.  sha256 is taken to be collision-free: the   *)
(* digest of a string is that string under a tag no path segment carries.   *)
(***************************************************************************)
sha256hex(s) == <<"sha256">> \o s

\* The components with the platform test alone, enableCrossOsArchive ignored.
VersionComponentsMarkerOnWindows(paths, hasCm, cm, win, enableCrossOsArchive) ==
    paths
    \o (IF hasCm THEN <<cm>> ELSE <<>>)
    \o (IF win THEN <<WindowsOnly>> ELSE <<>>)
    \o <<versionSalt>>

\* The array getCacheVersion joins: the paths, the compression method when
\* given, "windows-only" on win32 without enableCrossOsArchive, the salt.
VersionComponents(paths, hasCm, cm, win, enableCrossOsArchive) ==
    paths
    \o (IF hasCm THEN <<cm>> ELSE <<>>)
    \o (IF win /\ ~enableCrossOsArchive THEN <<WindowsOnly>> ELSE <<>>)
    \o <<versionSalt>>

\* The string getCacheVersion hashes: components.join("|").
VersionPreimage(paths, hasCm, cm, win, enableCrossOsArchive) ==
    Join(VersionComponents(paths, hasCm, cm, win, enableCrossOsArchive), Bar)

getCacheVersion(paths, hasCm, cm, win, enableCrossOsArchive) ==
    sha256hex(VersionPreimage(paths, hasCm, cm, win, enableCrossOsArchive))

\* getPrefix: ["cache", repository, version].join("/"), as its path segments.
\* The hex digest holds no "/" and is no "." or "..": it is one segment.
getPrefix(paths, cm, win, enableCrossOsArchive) ==
    Split(Join(<<Cache, Repository>>, Slash))
    \o <<getCacheVersion(paths, TRUE, cm, win, enableCrossOsArchive)>>

\* [cacheDir, prefix, key].join("/") and path.join(cacheDir, prefix, key):
\* the directory they name, as its segments below cacheDir.
KeyDir(prefix, key) == NormalizeFrom(prefix \o Split(key), 1, <<>>)

getCacheFileName(cm) == IF cm = Gzip THEN CacheTgz ELSE CacheTzst

(***************************************************************************)
(* Validation                                                              *)
(***************************************************************************)
\* checkPaths without the length test.
checkPathsNoLength(hasPaths, paths) == ~hasPaths

\* TRUE when checkPaths throws ValidationError.
checkPaths(hasPaths, paths) == ~hasPaths \/ Len(paths) = 0

HasComma(key) == \E i \in 1..Len(key) : key[i] = Comma

\* checkKey with the length test off by one.
checkKeyOffByOne(key) ==
    IF Len(key) >= MaxKeyLen THEN "key-too-long"
    ELSE IF HasComma(key) THEN "key-has-comma"
    ELSE "ok"

\* The message checkKey throws, "ok" when it returns.
checkKey(key) ==
    IF Len(key) > MaxKeyLen THEN "key-too-long"
    ELSE IF HasComma(key) THEN "key-has-comma"
    ELSE "ok"

\* The key-count test off by one.
TooManyKeysOffByOne(keys) == Len(keys) >= MaxKeys

\* keys.length > 10
TooManyKeys(keys) == Len(keys) > MaxKeys

RECURSIVE FirstBadKey(_, _)
FirstBadKey(keys, i) ==
    IF i > Len(keys) THEN "ok"
    ELSE IF checkKey(keys[i]) # "ok" THEN checkKey(keys[i])
    ELSE FirstBadKey(keys, i + 1)

(***************************************************************************)
(* The backend store: a function from each existing directory (its         *)
(* segments below cacheDir) to the files in it, oldest modification first.  *)
(* A file is [name, ok, ver]: ok is FALSE for an archive tar left           *)
(* unfinished, ver is the fingerprint of the saveCache call that wrote it.  *)
(***************************************************************************)
VARIABLES store, cs, lastCall, ncalls, versions

vars == <<store, cs, lastCall, ncalls, versions>>

NoDirs == [d \in {} |-> <<>>]

Front(s) == SubSeq(s, 1, Len(s) - 1)
Prefixes(d) == {SubSeq(d, 1, n) : n \in 0..Len(d)}

FileNames(fs) == {fs[i].name : i \in 1..Len(fs)}
RemoveFile(fs, name) == SelectSeq(fs, LAMBDA f : f.name # name)
WriteFile(fs, name, ok, ver) ==
    Append(RemoveFile(fs, name), [name |-> name, ok |-> ok, ver |-> ver])
FileAt(st, d, name) == st[d][CHOOSE i \in 1..Len(st[d]) : st[d][i].name = name]

DirExists(st, d) == d \in DOMAIN st
FileExists(st, d, name) == DirExists(st, d) /\ name \in FileNames(st[d])
IsFilePath(st, q) == Len(q) > 0 /\ FileExists(st, Front(q), q[Len(q)])
SubDirNames(st, d) == {q[Len(q)] : q \in {r \in DOMAIN st : Len(r) > 0 /\ Front(r) = d}}

\* fs.promises.mkdir(d, {recursive: true}): fails when a prefix is a file.
MkdirCanSucceed(st, d) == \A q \in Prefixes(d) : ~IsFilePath(st, q)
Mkdir(st, d) ==
    [q \in (DOMAIN st) \cup Prefixes(d) |-> IF q \in DOMAIN st THEN st[q] ELSE <<>>]

\* readdir(d): the names of the children of d.
Readdir(st, d) == FileNames(st[d]) \cup SubDirNames(st, d)

Unlink(st, d, name) == [st EXCEPT ![d] = RemoveFile(@, name)]
PutFile(st, d, name, ok, ver) == [st EXCEPT ![d] = WriteFile(@, name, ok, ver)]

\* A path string handed to the file system unnormalised, as [..].join("/")
\* builds it: the walk needs the directory before every "." and ".." to exist.
WalkOk(st, segs) ==
    \A i \in 1..Len(segs) :
        segs[i] \in {Dot, DotDot} => NormalizeFrom(SubSeq(segs, 1, i - 1), 1, <<>>) \in DOMAIN st

\* extractTar succeeds on a finished archive written with the same method.
Extractable(st, d, name, cm) ==
    /\ FileExists(st, d, name)
    /\ name = getCacheFileName(cm)
    /\ FileAt(st, d, name).ok

(***************************************************************************)
(* Calls.  cs[p] is the call process p is in: its arguments, the position  *)
(* in the function body, its locals and, at "done", its outcome.           *)
(***************************************************************************)
Procs == {1, 2, 3}
Impls == {"fsCache", "part000"}
ErrorNames == {"Error", "ReserveCacheError", "ValidationError"}

IdleCall ==
    [pc |-> "idle", op |-> "none", impl |-> "part000",
     hasPaths |-> TRUE, paths |-> <<>>, keys |-> <<>>,
     cm |-> Zstd, win |-> FALSE, xos |-> FALSE,
     idx |-> 0, probed |-> <<>>, found |-> {}, child |-> {}, unpacked |-> {},
     cacheId |-> -1, thrown |-> "none", caught |-> "none", fault |-> FALSE, after |-> {},
     cleanup |-> "none", inject |-> TRUE, raced |-> FALSE, seq |-> 0, endseq |-> 0,
     raised |-> "none", msg |-> "none", ret |-> {}, log |-> {}]

\* The errors the codec and the file system may throw at any step of a
\* call, whatever the store holds; none in a call made with inject FALSE,
\* whose steps fail only for what the store holds.
Faults(c) == IF c.inject THEN ErrorNames ELSE {}

\* The directory and archive a call works on.
CallVersion(c) == getCacheVersion(c.paths, TRUE, c.cm, c.win, c.xos)
CallPrefix(c) == getPrefix(c.paths, c.cm, c.win, c.xos)
CallDir(c, key) == KeyDir(CallPrefix(c), key)
\* readdir([cacheDir, prefix, restoreKey].join("/")) finds a directory.
CanList(st, c, key) ==
    WalkOk(st, CallPrefix(c) \o Split(key)) /\ DirExists(st, CallDir(c, key))

(***************************************************************************)
(* The arguments the calls are made with                                   *)
(***************************************************************************)
MaxCalls == 3

PathsP == <<<<"p">>>>
PathsQ == <<<<"q">>>>
BuildA == <<"b","u","i","l","d","-","a">>
BuildAB == <<"b","u","i","l","d","-","a","b">>
BuildABC == <<"b","u","i","l","d","-","a","b","c">>
BuildDash == <<"b","u","i","l","d","-">>
BuildASlash == <<"b","u","i","l","d","-","a","/">>
UpShared == <<".",".","/","s">>
CommaKey == <<"a",",","b">>
Key512 == [i \in 1..MaxKeyLen |-> "x"]
Key513 == [i \in 1..(MaxKeyLen + 1) |-> "x"]
TenKeys == [i \in 1..MaxKeys |-> IF i = MaxKeys THEN BuildA ELSE BuildABC]
ElevenKeys == [i \in 1..(MaxKeys + 1) |-> BuildABC]
TenKeysOneBad == [i \in 1..MaxKeys |-> IF i = 2 THEN CommaKey ELSE BuildABC]
ElevenKeysOneBad == [i \in 1..(MaxKeys + 1) |-> IF i = 2 THEN Key513 ELSE BuildABC]

Arg(hasPaths, paths, keys) ==
    [hasPaths |-> hasPaths, paths |-> paths, keys |-> keys,
     cm |-> Zstd, win |-> FALSE, xos |-> FALSE]

SaveInputs ==
    {[hasPaths |-> a.hasPaths, paths |-> a.paths, key |-> a.keys[1],
      cm |-> a.cm, win |-> a.win, xos |-> a.xos] :
        a \in {Arg(TRUE, PathsP, <<k>>) :
                    k \in {BuildA, BuildAB, Key512, Key513, CommaKey}}
              \cup {Arg(TRUE, PathsQ, <<k>>) : k \in {UpShared}}
              \cup {Arg(h, <<>>, <<k>>) : h \in BOOLEAN, k \in {BuildA, CommaKey}}}

RestoreInputs ==
    {Arg(TRUE, PathsP, ks) :
        ks \in {<<BuildA>>, <<BuildAB>>, <<UpShared>>, <<BuildABC, BuildA>>,
                <<BuildABC, BuildDash>>,
                <<BuildABC, BuildAB, BuildA>>, <<Key512>>, <<Key513>>,
                <<BuildA, CommaKey>>, TenKeys, ElevenKeys, TenKeysOneBad,
                ElevenKeysOneBad}}
    \cup {Arg(TRUE, PathsQ, ks) : ks \in {<<BuildA>>, <<UpShared>>}}
    \cup {Arg(h, <<>>, ks) : h \in BOOLEAN, ks \in {<<BuildA>>, <<CommaKey>>, ElevenKeys}}

\* Arguments of getCacheVersion (compressionMethod is optional).
Slots == {1, 2}
PathA == <<"a">>
PathB == <<"b">>
PathAB == <<"a","|","b">>
PathAA == <<"a","|","a">>
VersionInputs ==
    {[paths |-> ps, hasCm |-> m.hasCm, cm |-> m.cm, win |-> w, xos |-> x] :
        ps \in {<<PathA>>, <<PathB>>, <<PathA, PathB>>, <<PathB, PathA>>, <<PathAB>>,
                <<PathA, Zstd>>, <<PathA, WindowsOnly>>},
        m \in {[hasCm |-> FALSE, cm |-> <<>>], [hasCm |-> TRUE, cm |-> Zstd],
               [hasCm |-> TRUE, cm |-> Gzip]},
        w \in BOOLEAN, x \in BOOLEAN}

\* What identifies a finished call: its arguments and the value it returned.
Sig(c) == [op |-> c.op, impl |-> c.impl, paths |-> c.paths, key |-> c.keys[1],
           keys |-> c.keys, cm |-> c.cm, win |-> c.win, xos |-> c.xos, ret |-> c.ret,
           fault |-> c.fault]

Raise(c, name, msg) == [c EXCEPT !.pc = "done", !.raised = name, !.msg = msg]
Logged(c, level, what) == [c EXCEPT !.log = @ \cup {<<level, what>>}]

\* A step of a call: no call touches the key codec's results.
Step(p, c) == cs' = [cs EXCEPT ![p] = c] /\ UNCHANGED versions

\* The step that ends a call; a save that returned 1 and a restore that
\* returned a key are remembered until the next call begins.
Finish(p, c) ==
    /\ cs' = [cs EXCEPT ![p] = [c EXCEPT !.endseq = ncalls]]
    /\ UNCHANGED versions
    /\ lastCall' = IF \/ c.op = "save" /\ c.raised = "none" /\ c.cacheId = 1
                      \/ c.op = "restore" /\ c.raised = "none" /\ c.ret # {}
                   THEN {Sig(c)} ELSE {}

CanCall(p) == cs[p].pc \in {"idle", "done"} /\ ncalls < MaxCalls

(***************************************************************************)
(* saveCache                                                               *)
(***************************************************************************)
\* checkPaths(paths); checkKey(key): the message thrown, "ok" when none.
SaveValidate(hasPaths, paths, key) ==
    IF checkPaths(hasPaths, paths) THEN "paths-required" ELSE checkKey(key)

\* Entry of saveCache with arguments drawn from inputs; seq numbers the
\* calls in the order they begin.
SaveCallWith(p, inputs, inject) ==
    /\ \E impl \in Impls, in \in inputs :
         LET c0 == [IdleCall EXCEPT !.op = "save", !.impl = impl,
                       !.hasPaths = in.hasPaths, !.paths = in.paths,
                       !.keys = <<in.key>>, !.cm = in.cm, !.win = in.win,
                       !.xos = in.xos, !.after = lastCall, !.seq = ncalls + 1,
                       !.inject = inject]
             v == SaveValidate(in.hasPaths, in.paths, in.key)
         IN Step(p, IF v # "ok" THEN Raise(c0, "ValidationError", v)
                    ELSE [c0 EXCEPT !.pc = "s_resolve"])
    /\ ncalls' = ncalls + 1
    /\ lastCall' = {}
    /\ UNCHANGED store

SaveCall(p) == CanCall(p) /\ SaveCallWith(p, SaveInputs, TRUE)

\* The same throw with a ValidationError.
ResolveFailureAsValidation(c) == Raise(c, "ValidationError", "paths-do-not-exist")

\* cachePaths.length === 0: throw new Error("Path Validation Error: ...").
ResolveFailure(c) == Raise(c, "Error", "paths-do-not-exist")

\* utils.resolvePaths: the patterns match files of the working tree, or none.
SaveResolvePaths(p) ==
    /\ cs[p].pc = "s_resolve"
    /\ \E resolved \in BOOLEAN :
         IF resolved THEN Step(p, [cs[p] EXCEPT !.pc = "s_mkdir"]) /\ UNCHANGED lastCall
         ELSE Finish(p, ResolveFailure(cs[p]))
    /\ UNCHANGED <<store, ncalls>>

\* The directory saveCache creates before packaging.
MkdirTarget(c) == IF c.impl = "fsCache" THEN <<>> ELSE CallDir(c, c.keys[1])

SaveMkdir(p) ==
    /\ cs[p].pc = "s_mkdir"
    /\ LET c == cs[p] IN
         \/ /\ MkdirCanSucceed(store, MkdirTarget(c))
            /\ store' = Mkdir(store, MkdirTarget(c))
            /\ Step(p, [c EXCEPT !.pc = IF c.impl = "fsCache" THEN "s_manifest"
                                        ELSE "s_unlink_old"])
            /\ UNCHANGED lastCall
         \/ /\ c.inject \/ ~MkdirCanSucceed(store, MkdirTarget(c))
            /\ Finish(p, Raise([c EXCEPT !.fault = TRUE], "Error", "mkdir"))
            /\ UNCHANGED store
    /\ UNCHANGED ncalls

\* part_000 only: "Delete existing tar", any error swallowed.
SaveDeleteExisting(p) ==
    /\ cs[p].pc = "s_unlink_old"
    /\ LET c == cs[p]
           d == CallDir(c, c.keys[1])
           f == getCacheFileName(c.cm)
       IN /\ \/ FileExists(store, d, f) /\ store' = Unlink(store, d, f)
             \/ UNCHANGED store
          /\ Step(p, [c EXCEPT !.pc = "s_manifest"])
    /\ UNCHANGED <<lastCall, ncalls>>

\* createTar, first half: writeFileSync(<archiveFolder>/manifest.txt).
CreateTarManifest(p) ==
    /\ cs[p].pc = "s_manifest"
    /\ LET c == cs[p]
           d == CallDir(c, c.keys[1])
       IN \/ /\ DirExists(store, d)
             /\ store' = PutFile(store, d, ManifestName, TRUE, CallVersion(c))
             /\ Step(p, [c EXCEPT !.pc = "s_tar"])
          \/ /\ ~DirExists(store, d)
             /\ Step(p, [c EXCEPT !.pc = "s_catch", !.thrown = "Error"])
             /\ UNCHANGED store
          \/ /\ \E name \in Faults(c) :
                  Step(p, [c EXCEPT !.pc = "s_catch", !.thrown = name, !.fault = TRUE])
             /\ UNCHANGED store
    /\ UNCHANGED <<lastCall, ncalls>>

\* createTar, second half: tar runs in archiveFolder, reads manifest.txt and
\* opens the archive for writing.  The archive is unfinished while tar runs.
\* A tar that opens an archive another tar is writing races with it: both
\* write the same file, and each may leave it finished or not.
TarWriters(p, d, f) ==
    {q \in Procs \ {p} :
        /\ cs[q].op = "save" /\ cs[q].pc = "s_tar_run"
        /\ CallDir(cs[q], cs[q].keys[1]) = d /\ getCacheFileName(cs[q].cm) = f}

CreateTarExec(p) ==
    /\ cs[p].pc = "s_tar"
    /\ LET c == cs[p]
           d == CallDir(c, c.keys[1])
           f == getCacheFileName(c.cm)
           ws == TarWriters(p, d, f)
       IN \/ /\ FileExists(store, d, ManifestName)
             /\ store' = PutFile(store, d, f, FALSE, CallVersion(c))
             /\ cs' = [q \in Procs |->
                         IF q = p THEN [c EXCEPT !.pc = "s_tar_run", !.raced = (ws # {})]
                         ELSE IF q \in ws THEN [cs[q] EXCEPT !.raced = TRUE]
                         ELSE cs[q]]
             /\ UNCHANGED versions
          \/ /\ ~FileExists(store, d, ManifestName)
             /\ Step(p, [c EXCEPT !.pc = "s_catch", !.thrown = "Error"])
             /\ UNCHANGED store
          \/ /\ \E name \in Faults(c) :
                  Step(p, [c EXCEPT !.pc = "s_catch", !.thrown = name, !.fault = TRUE])
             /\ UNCHANGED store
    /\ UNCHANGED <<lastCall, ncalls>>

\* tar exits.  Exit 0 leaves the archive finished, unless it raced; an
\* archive unlinked while tar wrote it stays unlinked.  A failed run leaves
\* the archive unfinished.
CreateTarExit(p) ==
    /\ cs[p].pc = "s_tar_run"
    /\ LET c == cs[p]
           d == CallDir(c, c.keys[1])
           f == getCacheFileName(c.cm)
       IN \/ /\ FileExists(store, d, f)
             /\ \E ok \in (IF c.raced THEN BOOLEAN ELSE {TRUE}) :
                  store' = PutFile(store, d, f, ok, CallVersion(c))
             /\ Step(p, [c EXCEPT !.pc = "s_size"])
          \/ /\ ~FileExists(store, d, f)
             /\ Step(p, [c EXCEPT !.pc = "s_size"])
             /\ UNCHANGED store
          \/ /\ \E name \in Faults(c) :
                  Step(p, [c EXCEPT !.pc = "s_catch", !.thrown = name, !.fault = TRUE])
             /\ UNCHANGED store
    /\ UNCHANGED <<lastCall, ncalls>>

\* listTar when core.isDebug(), then utils.getArchiveFileSizeInBytes.
SaveListAndSize(p) ==
    /\ cs[p].pc = "s_size"
    /\ LET c == cs[p]
           d == CallDir(c, c.keys[1])
           f == getCacheFileName(c.cm)
       IN \/ /\ FileExists(store, d, f)
             /\ Step(p, [c EXCEPT !.pc = "s_finally", !.cacheId = 1])
          \/ /\ ~FileExists(store, d, f)
             /\ Step(p, [c EXCEPT !.pc = "s_catch", !.thrown = "Error"])
          \/ \E name \in Faults(c) :
                Step(p, [c EXCEPT !.pc = "s_catch", !.thrown = name, !.fault = TRUE])
    /\ UNCHANGED <<store, lastCall, ncalls>>

\* A catch clause with the ValidationError test inverted.
SaveCatchKindInverted(name) ==
    IF name # "ValidationError" THEN "rethrow" ELSE "warning"

\* The catch clause of saveCache: what it does with an error of that name.
SaveCatchKind(name) ==
    IF name = "ValidationError" THEN "rethrow"
    ELSE IF name = "ReserveCacheError" THEN "info"
    ELSE "warning"

SaveCatch(p) ==
    /\ cs[p].pc = "s_catch"
    /\ LET c == cs[p]
           k == SaveCatchKind(c.thrown)
       IN Step(p, IF k = "rethrow"
                  THEN [c EXCEPT !.pc = "s_finally", !.caught = c.thrown]
                  ELSE [Logged(c, k, "Failed to save") EXCEPT
                           !.pc = "s_finally", !.caught = c.thrown, !.thrown = "none"])
    /\ UNCHANGED <<store, lastCall, ncalls>>

\* The file the finally clause of saveCache unlinks.
CleanupName(c) == IF c.impl = "fsCache" THEN getCacheFileName(c.cm) ELSE ManifestName

\* A finally clause that lets the failure of its unlink escape.
SaveAfterFinallyRaisesCleanup(c) ==
    IF c.cleanup = "failed" THEN Raise(c, "Error", "cleanup")
    ELSE IF c.thrown # "none" THEN Raise(c, c.thrown, "rethrown")
    ELSE [c EXCEPT !.pc = "done"]

\* After the finally clause: the pending error is thrown, or cacheId returned.
SaveAfterFinally(c) ==
    IF c.thrown # "none" THEN Raise(c, c.thrown, "rethrown") ELSE [c EXCEPT !.pc = "done"]

SaveFinally(p) ==
    /\ cs[p].pc = "s_finally"
    /\ LET c == cs[p]
           d == CallDir(c, c.keys[1])
           f == CleanupName(c)
       IN \/ /\ FileExists(store, d, f)
             /\ store' = Unlink(store, d, f)
             /\ Finish(p, SaveAfterFinally([c EXCEPT !.cleanup = "unlinked"]))
          \/ /\ c.inject \/ ~FileExists(store, d, f)
             /\ UNCHANGED store
             /\ Finish(p, SaveAfterFinally(
                    [Logged(c, "debug", "Failed to delete") EXCEPT !.cleanup = "failed"]))
    /\ UNCHANGED ncalls

(***************************************************************************)
(* restoreCache                                                            *)
(***************************************************************************)
\* The same without the checkKey loop.
RestoreValidateNoKeyLoop(hasPaths, paths, keys) ==
    IF checkPaths(hasPaths, paths) THEN "paths-required"
    ELSE IF TooManyKeys(keys) THEN "too-many-keys"
    ELSE "ok"

\* checkPaths, the key-count test, checkKey on every key: the message
\* thrown, "ok" when none.
RestoreValidate(hasPaths, paths, keys) ==
    IF checkPaths(hasPaths, paths) THEN "paths-required"
    ELSE IF TooManyKeys(keys) THEN "too-many-keys"
    ELSE FirstBadKey(keys, 1)

\* Entry of restoreCache with arguments drawn from inputs.
RestoreCallWith(p, inputs, inject) ==
    /\ \E impl \in Impls, in \in inputs :
         LET c0 == [IdleCall EXCEPT !.op = "restore", !.impl = impl,
                       !.hasPaths = in.hasPaths, !.paths = in.paths,
                       !.keys = in.keys, !.cm = in.cm, !.win = in.win,
                       !.xos = in.xos, !.after = lastCall, !.seq = ncalls + 1,
                       !.inject = inject]
             v == RestoreValidate(in.hasPaths, in.paths, in.keys)
         IN Step(p, IF v # "ok" THEN Raise(c0, "ValidationError", v)
                    ELSE [c0 EXCEPT !.pc = "r_probe", !.idx = 1])
    /\ ncalls' = ncalls + 1
    /\ lastCall' = {}
    /\ UNCHANGED store

RestoreCall(p) == CanCall(p) /\ RestoreCallWith(p, RestoreInputs, TRUE)

\* files.length >= 0
HasChildrenOrNone(files) == Cardinality(files) >= 0

\* files.length > 0
HasChildren(files) == Cardinality(files) > 0

\* getCacheEntry (fsCache): sortedKeys[0] after the ascending mtime sort:
\* the oldest file; the model keeps no mtime for sub-directories.
SortedFirst(st, d) ==
    (IF Len(st[d]) > 0 THEN {st[d][1].name} ELSE {}) \cup SubDirNames(st, d)

Probed(c, d, res) == [c EXCEPT !.probed = Append(@, [dir |-> d, res |-> res])]

\* One iteration of the loop of getCacheEntry / getRestoreKey.
ProbeKey(p) ==
    /\ cs[p].pc = "r_probe"
    /\ cs[p].idx <= Len(cs[p].keys)
    /\ LET c == cs[p]
           d == CallDir(c, c.keys[c.idx])
       IN \/ /\ CanList(store, c, c.keys[c.idx])
             /\ HasChildren(Readdir(store, d))
             /\ \E child \in (IF c.impl = "fsCache" THEN SortedFirst(store, d) ELSE {<<>>}) :
                  Step(p, [Probed(c, d, "hit") EXCEPT
                              !.pc = "r_size", !.found = {c.idx},
                              !.child = IF c.impl = "fsCache" THEN {child} ELSE {}])
          \/ /\ CanList(store, c, c.keys[c.idx])
             /\ ~HasChildren(Readdir(store, d))
             /\ Step(p, [Probed(c, d, "empty") EXCEPT !.idx = c.idx + 1])
          \/ /\ ~CanList(store, c, c.keys[c.idx])
             /\ Step(p, [Probed(c, d, "failed") EXCEPT !.idx = c.idx + 1])
          \/ /\ c.inject
             /\ Step(p, [Probed(c, d, "failed") EXCEPT !.idx = c.idx + 1, !.fault = TRUE])
    /\ UNCHANGED <<store, lastCall, ncalls>>

\* A catch clause that rethrows the errors named Error.
RestoreCatchKindRethrowsErrors(name) == IF name = "Error" THEN "rethrow" ELSE "warning"

\* A catch clause that rethrows whatever it caught.
RestoreCatchKindRethrows(name) == "rethrow"

\* The catch clause of restoreCache: what it does with an error of that name.
RestoreCatchKind(name) == IF name = "ValidationError" THEN "rethrow" ELSE "warning"

\* The loop ended with no key: throw "cache entry not found" (a string,
\* whose name is undefined), caught by the catch clause.
RestoreNotFound(p) ==
    /\ cs[p].pc = "r_probe"
    /\ cs[p].idx > Len(cs[p].keys)
    /\ Finish(p, IF RestoreCatchKind("undefined") = "rethrow"
                 THEN Raise(cs[p], "undefined", "cache entry not found")
                 ELSE [Logged(cs[p], "warning", "Failed to restore") EXCEPT !.pc = "done"])
    /\ UNCHANGED <<store, ncalls>>

\* The file restoreCache takes for the archive.
ArchiveName(c) == IF c.impl = "fsCache" THEN (CHOOSE x \in c.child : TRUE)
                  ELSE getCacheFileName(c.cm)

\* The value restoreCache returns on success.
RestoreResult(c) == IF c.impl = "fsCache" THEN (CHOOSE x \in c.child : TRUE)
                    ELSE c.keys[CHOOSE i \in c.found : TRUE]

FoundDir(c) == CallDir(c, c.keys[CHOOSE i \in c.found : TRUE])

\* The archive path: [archiveLocation, cacheKey].join("/") in fsCache is
\* walked as written, path.join(archiveFolder, fileName) in part_000 is
\* normalised first.
ArchiveReachable(st, c) ==
    c.impl = "fsCache" =>
        WalkOk(st, CallPrefix(c) \o Split(c.keys[CHOOSE i \in c.found : TRUE]))

\* listTar when core.isDebug(), then utils.getArchiveFileSizeInBytes.
RestoreListAndSize(p) ==
    /\ cs[p].pc = "r_size"
    /\ LET c == cs[p]
           d == FoundDir(c)
           f == ArchiveName(c)
           there == /\ ArchiveReachable(store, c)
                    /\ FileExists(store, d, f) \/ DirExists(store, Append(d, f))
       IN \/ /\ there
             /\ Step(p, [c EXCEPT !.pc = "r_extract"])
          \/ /\ ~there
             /\ Step(p, [c EXCEPT !.pc = "r_catch", !.thrown = "Error"])
          \/ \E name \in Faults(c) :
                Step(p, [c EXCEPT !.pc = "r_catch", !.thrown = name, !.fault = TRUE])
    /\ UNCHANGED <<store, lastCall, ncalls>>

\* An extraction that unlinks the archive it has unpacked.
RestoreExtractThenUnlink(p) ==
    /\ cs[p].pc = "r_extract"
    /\ LET c == cs[p]
           d == FoundDir(c)
           f == ArchiveName(c)
           can == ArchiveReachable(store, c) /\ Extractable(store, d, f, c.cm)
       IN \/ /\ can
             /\ store' = Unlink(store, d, f)
             /\ Finish(p, [c EXCEPT !.pc = "done", !.unpacked = {[dir |-> d, file |-> FileAt(store, d, f)]},
                                    !.ret = {RestoreResult(c)}])
          \/ /\ ~can
             /\ Step(p, [c EXCEPT !.pc = "r_catch", !.thrown = "Error"])
             /\ UNCHANGED <<store, lastCall>>
    /\ UNCHANGED ncalls

RestoreExtract(p) ==
    /\ cs[p].pc = "r_extract"
    /\ LET c == cs[p]
           d == FoundDir(c)
           f == ArchiveName(c)
           can == ArchiveReachable(store, c) /\ Extractable(store, d, f, c.cm)
       IN \/ /\ can
             /\ Finish(p, [c EXCEPT !.pc = "done", !.unpacked = {[dir |-> d, file |-> FileAt(store, d, f)]},
                                    !.ret = {RestoreResult(c)}])
          \/ /\ ~can
             /\ Step(p, [c EXCEPT !.pc = "r_catch", !.thrown = "Error"])
             /\ UNCHANGED lastCall
          \/ /\ \E name \in Faults(c) :
                  Step(p, [c EXCEPT !.pc = "r_catch", !.thrown = name, !.fault = TRUE])
             /\ UNCHANGED lastCall
    /\ UNCHANGED <<store, ncalls>>

RestoreCatch(p) ==
    /\ cs[p].pc = "r_catch"
    /\ LET c == cs[p] IN
         Finish(p, IF RestoreCatchKind(c.thrown) = "rethrow"
                   THEN Raise([c EXCEPT !.caught = c.thrown], c.thrown, "rethrown")
                   ELSE [Logged(c, "warning", "Failed to restore") EXCEPT
                            !.pc = "done", !.caught = c.thrown, !.thrown = "none"])
    /\ UNCHANGED <<store, ncalls>>

(***************************************************************************)
(* Specification: calls made one after the other by one process.           *)
(***************************************************************************)
Init ==
    /\ store = NoDirs
    /\ cs = [p \in Procs |-> IdleCall]
    /\ lastCall = {}
    /\ ncalls = 0
    /\ versions = [i \in Slots |-> {}]

\* The steps of a saveCache call after its entry.
SaveBody(p) ==
    \/ SaveResolvePaths(p)
    \/ SaveMkdir(p)
    \/ SaveDeleteExisting(p)
    \/ CreateTarManifest(p)
    \/ CreateTarExec(p)
    \/ CreateTarExit(p)
    \/ SaveListAndSize(p)
    \/ SaveCatch(p)
    \/ SaveFinally(p)

SaveStep(p) == SaveCall(p) \/ SaveBody(p)

\* The steps of a restoreCache call after its entry.
RestoreBody(p) ==
    \/ ProbeKey(p)
    \/ RestoreNotFound(p)
    \/ RestoreListAndSize(p)
    \/ RestoreExtract(p)
    \/ RestoreCatch(p)

RestoreStep(p) == RestoreCall(p) \/ RestoreBody(p)

Next == SaveStep(1) \/ RestoreStep(1)

Spec == Init /\ [][Next]_vars

(***************************************************************************)
(* Specification of concurrent callers: two processes each make one        *)
(* saveCache call and a third makes one restoreCache call, all on one path  *)
(* set; every await of the functions is a point where the steps of the      *)
(* calls interleave.                                                        *)
(***************************************************************************)
Savers == {1, 2}
Restorer == 3

ConcSaveInputs ==
    {[hasPaths |-> a.hasPaths, paths |-> a.paths, key |-> a.keys[1],
      cm |-> a.cm, win |-> a.win, xos |-> a.xos] :
        a \in {Arg(TRUE, PathsP, <<k>>) : k \in {BuildA, BuildAB}}}

ConcRestoreInputs ==
    {Arg(TRUE, PathsP, ks) : ks \in {<<BuildA>>, <<BuildAB, BuildA>>}}

\* The calls in progress, and how many of them may be at one time.
MaxInFlight == 2
InFlight == {p \in Procs : cs[p].pc \notin {"idle", "done"}}
ConcCanCall(p) == cs[p].pc = "idle" /\ Cardinality(InFlight) < MaxInFlight

\* The saves run with no injected fault: their steps fail only for what the
\* other calls did to the store.
ConcSaveCall(p) == ConcCanCall(p) /\ SaveCallWith(p, ConcSaveInputs, FALSE)

ConcRestoreCall(p) == ConcCanCall(p) /\ RestoreCallWith(p, ConcRestoreInputs, TRUE)

NextConc ==
    \/ \E p \in Savers : ConcSaveCall(p) \/ SaveBody(p)
    \/ ConcRestoreCall(Restorer)
    \/ RestoreBody(Restorer)

SpecConc == Init /\ [][NextConc]_vars

(***************************************************************************)
(* Specification of concurrent callers whose keys differ: two processes     *)
(* each make one saveCache call and a third one restoreCache call, each for  *)
(* one key, at most MaxInFlight of them in progress at one time; no fault is *)
(* injected, so a step fails only for what the calls did to the store.       *)
(***************************************************************************)
KeysSaveInputs ==
    {[hasPaths |-> a.hasPaths, paths |-> a.paths, key |-> a.keys[1],
      cm |-> a.cm, win |-> a.win, xos |-> a.xos] :
        a \in {Arg(TRUE, PathsP, <<k>>) : k \in {BuildA, BuildASlash, BuildAB}}}

KeysRestoreInputs ==
    {Arg(TRUE, PathsP, <<k>>) : k \in {BuildA, BuildASlash, BuildAB}}

KeysSaveCall(p) == ConcCanCall(p) /\ SaveCallWith(p, KeysSaveInputs, FALSE)

KeysRestoreCall(p) == ConcCanCall(p) /\ RestoreCallWith(p, KeysRestoreInputs, FALSE)

NextKeys ==
    \/ \E p \in Savers : KeysSaveCall(p) \/ SaveBody(p)
    \/ KeysRestoreCall(Restorer)
    \/ RestoreBody(Restorer)

SpecKeys == Init /\ [][NextKeys]_vars

(***************************************************************************)
(* Specification of callers on different platforms: one call after the      *)
(* other on one store, each made on win32 or not (process.platform) and with *)
(* enableCrossOsArchive set or not.                                          *)
(***************************************************************************)
PlatformSaveInputs ==
    {[hasPaths |-> TRUE, paths |-> PathsP, key |-> BuildA, cm |-> Zstd,
      win |-> w, xos |-> x] : w \in BOOLEAN, x \in BOOLEAN}

PlatformRestoreInputs ==
    {[hasPaths |-> TRUE, paths |-> PathsP, keys |-> <<BuildA>>, cm |-> Zstd,
      win |-> w, xos |-> x] : w \in BOOLEAN, x \in BOOLEAN}

PlatformSaveCall(p) == CanCall(p) /\ SaveCallWith(p, PlatformSaveInputs, TRUE)

PlatformRestoreCall(p) == CanCall(p) /\ RestoreCallWith(p, PlatformRestoreInputs, TRUE)

NextPlatform ==
    \/ PlatformSaveCall(1)
    \/ SaveBody(1)
    \/ PlatformRestoreCall(1)
    \/ RestoreBody(1)

SpecPlatform == Init /\ [][NextPlatform]_vars

(***************************************************************************)
(* Specification of callers that give the same paths in different orders:   *)
(* one call after the other on one store, for one key.                       *)
(***************************************************************************)
OrderedPaths == {<<PathA, PathB>>, <<PathB, PathA>>, <<PathA, PathAA>>, <<PathAA, PathA>>}

OrderSaveInputs ==
    {[hasPaths |-> TRUE, paths |-> ps, key |-> BuildA, cm |-> Zstd,
      win |-> FALSE, xos |-> FALSE] : ps \in OrderedPaths}

OrderRestoreInputs == {Arg(TRUE, ps, <<BuildA>>) : ps \in OrderedPaths}

OrderSaveCall(p) == CanCall(p) /\ SaveCallWith(p, OrderSaveInputs, TRUE)

OrderRestoreCall(p) == CanCall(p) /\ RestoreCallWith(p, OrderRestoreInputs, TRUE)

NextOrder ==
    \/ OrderSaveCall(1)
    \/ SaveBody(1)
    \/ OrderRestoreCall(1)
    \/ RestoreBody(1)

SpecOrder == Init /\ [][NextOrder]_vars

(***************************************************************************)
(* Specification of the key codec alone: getCacheVersion applied to        *)
(* arguments drawn from VersionInputs, two results kept side by side.      *)
(***************************************************************************)
ComputeVersion(i) ==
    /\ \E in \in VersionInputs :
         versions' = [versions EXCEPT ![i] =
             {[in |-> in,
               out |-> getCacheVersion(in.paths, in.hasCm, in.cm, in.win, in.xos)]}]
    /\ UNCHANGED <<store, cs, lastCall, ncalls>>

NextCodec == \E i \in Slots : ComputeVersion(i)

SpecCodec == Init /\ [][NextCodec]_vars

(***************************************************************************)
(* Properties                                                              *)
(***************************************************************************)
ValidationMsgs == {"paths-required", "too-many-keys", "key-too-long", "key-has-comma"}
PathsMissing(c) == ~c.hasPaths \/ c.paths = <<>>
KeyInvalid(k) == Len(k) > MaxKeyLen \/ \E i \in DOMAIN k : k[i] = ","
SomeKeyInvalid(c) == \E i \in DOMAIN c.keys : KeyInvalid(c.keys[i])
HasEntry(st, d) == d \in DOMAIN st /\ Readdir(st, d) # {}
Lists(st, c, key) == CanList(st, c, key) /\ Readdir(st, CallDir(c, key)) # {}
IsUnder(d, prefix) == Len(d) >= Len(prefix) /\ SubSeq(d, 1, Len(prefix)) = prefix
PlainKey(k) == \A j \in DOMAIN Split(k) : Split(k)[j] \notin {Dot, DotDot}
SaveDone(c) == c.op = "save" /\ c.pc = "done"
RestoreDone(c) == c.op = "restore" /\ c.pc = "done"
\* The save that returned 1 right before this call began addressed the same
\* entry, with the same module.
AfterOwnSave(c) ==
    \E s \in c.after : /\ s.op = "save"
                       /\ s.impl = c.impl /\ s.paths = c.paths /\ s.key = c.keys[1]
                       /\ s.cm = c.cm /\ s.win = c.win /\ s.xos = c.xos

\* C1: a restoreCache(P, k) issued right after a saveCache(P, k) that
\* returned 1, with no failure of the codec or of the file system, returns k.
C1_RoundTrip ==
    \A p \in Procs : LET c == cs[p] IN
        (RestoreDone(c) /\ Len(c.keys) = 1 /\ AfterOwnSave(c) /\ ~c.fault)
            => (c.raised = "none" /\ c.ret = {c.keys[1]})

\* The round trip of C1 for keys with no "." or ".." segment.
RoundTripPlainKeys ==
    \A p \in Procs : LET c == cs[p] IN
        (RestoreDone(c) /\ Len(c.keys) = 1 /\ AfterOwnSave(c) /\ ~c.fault
            /\ PlainKey(c.keys[1]))
            => (c.raised = "none" /\ c.ret = {c.keys[1]})

\* The round trip of C1 for src/unnamed/part_000 alone and a key with no
\* "." or ".." segment.
RoundTripPart000 ==
    \A p \in Procs : LET c == cs[p] IN
        (RestoreDone(c) /\ Len(c.keys) = 1 /\ AfterOwnSave(c) /\ ~c.fault
            /\ c.impl = "part000" /\ PlainKey(c.keys[1]))
            => (c.raised = "none" /\ c.ret = {c.keys[1]})

\* C2: the lookup probes the directories of [primaryKey, ...restoreKeys] in
\* caller order, selects the first key whose directory lists a child, never
\* a later key while an earlier one has a child, and probes nothing after
\* the selected key; with entries under build-ab and build-a and none under
\* build-abc, restore(P, build-abc, [build-a]) selects build-a, no raise.
C2_FallbackPriority ==
    \A p \in Procs : LET c == cs[p] IN
        (c.op = "restore" /\ c.msg \notin ValidationMsgs) =>
            /\ Len(c.probed) <= Len(c.keys)
            /\ \A i \in DOMAIN c.probed :
                 /\ c.probed[i].dir = KeyDir(getPrefix(c.paths, c.cm, c.win, c.xos), c.keys[i])
                 /\ (c.probed[i].res = "hit") <=> (c.found = {i})
                 /\ (~c.fault /\ c.found # {i}) => ~Lists(store, c, c.keys[i])
            /\ \A i \in c.found : i = Len(c.probed) /\ Lists(store, c, c.keys[i])
            /\ (c.pc = "done" /\ c.found = {}) => Len(c.probed) = Len(c.keys)
            /\ (/\ c.pc = "done" /\ ~c.fault
                /\ c.keys = <<BuildABC, BuildA>>
                /\ HasEntry(store, CallDir(c, BuildAB))
                /\ HasEntry(store, CallDir(c, BuildA))
                /\ ~HasEntry(store, CallDir(c, BuildABC)))
               => (c.found = {2} /\ c.raised = "none")

C2_Witness ==
    \E p \in Procs : LET c == cs[p] IN
        /\ RestoreDone(c) /\ c.impl = "part000" /\ ~c.fault
        /\ c.keys = <<BuildABC, BuildA>>
        /\ HasEntry(store, CallDir(c, BuildAB))
        /\ HasEntry(store, CallDir(c, BuildA))
        /\ ~HasEntry(store, CallDir(c, BuildABC))
        /\ c.found = {2} /\ c.ret = {BuildA} /\ c.raised = "none"

\* C3: a value restoreCache returns, other than undefined, is the key of
\* the combined list whose directory the lookup selected.
C3_ReturnsMatchedKey ==
    \A p \in Procs : LET c == cs[p] IN
        (RestoreDone(c) /\ c.raised = "none" /\ c.ret # {})
            => \E i \in c.found : c.ret = {c.keys[i]}

\* C3 for src/unnamed/part_000 alone.
ReturnsMatchedKeyPart000 ==
    \A p \in Procs : LET c == cs[p] IN
        (RestoreDone(c) /\ c.raised = "none" /\ c.ret # {} /\ c.impl = "part000")
            => \E i \in c.found : c.ret = {c.keys[i]}

\* C4: with valid arguments and no key of the combined list whose directory
\* has a child, restoreCache returns undefined and does not raise, also when
\* the backend root does not exist.
C4_GracefulMiss ==
    \A p \in Procs : LET c == cs[p] IN
        (/\ RestoreDone(c) /\ c.msg \notin ValidationMsgs
         /\ \A i \in DOMAIN c.keys : ~Lists(store, c, c.keys[i]))
            => (c.raised = "none" /\ c.ret = {})

C4_Witness ==
    \E p \in Procs : LET c == cs[p] IN
        /\ RestoreDone(c) /\ c.msg \notin ValidationMsgs
        /\ <<>> \notin DOMAIN store
        /\ Len(c.probed) = Len(c.keys) /\ Len(c.keys) > 1
        /\ c.raised = "none" /\ c.ret = {}

C6_KeyValidation ==
    \A p \in Procs : LET c == cs[p] IN
        /\ SaveDone(c) => ((c.raised = "ValidationError") <=> KeyInvalid(c.keys[1]))
        /\ (RestoreDone(c) /\ SomeKeyInvalid(c)) => c.raised = "ValidationError"
        /\ (c.pc = "done" /\ \A i \in DOMAIN c.keys : ~KeyInvalid(c.keys[i]))
              => c.msg \notin {"key-too-long", "key-has-comma"}

\* C6 amended: saveCache raises ValidationError exactly when its path set
\* is empty or absent, its key is longer than 512 characters or contains a
\* comma, or the codec throws an error named ValidationError; the rest as
\* claimed.
C6_KeyValidationAmended ==
    \A p \in Procs : LET c == cs[p] IN
        /\ SaveDone(c) =>
              ((c.raised = "ValidationError")
                 <=> (PathsMissing(c) \/ KeyInvalid(c.keys[1]) \/ c.caught = "ValidationError"))
        /\ (SaveDone(c) /\ ~PathsMissing(c))
              => ((c.msg \in {"key-too-long", "key-has-comma"}) <=> KeyInvalid(c.keys[1]))
        /\ (RestoreDone(c) /\ SomeKeyInvalid(c)) => c.raised = "ValidationError"
        /\ (c.pc = "done" /\ \A i \in DOMAIN c.keys : ~KeyInvalid(c.keys[i]))
              => c.msg \notin {"key-too-long", "key-has-comma"}

C6_Witness ==
    \E p \in Procs : LET c == cs[p] IN
        /\ SaveDone(c) /\ Len(c.keys[1]) = MaxKeyLen /\ ~KeyInvalid(c.keys[1])
        /\ c.raised = "none" /\ c.cacheId = 1

\* C7 as claimed: restoreCache raises ValidationError exactly when the
\* combined list has more than 10 entries.
C7_KeyCountLimit ==
    \A p \in Procs : LET c == cs[p] IN
        RestoreDone(c) => ((c.raised = "ValidationError") <=> Len(c.keys) > MaxKeys)

\* C7 amended: restoreCache raises ValidationError exactly when the path set
\* is empty or absent, the combined list has more than 10 entries, a key is
\* longer than 512 characters or contains a comma, or the codec throws an
\* error named ValidationError; with a non-empty path set the key-count
\* error is raised exactly when the list has more than 10 entries, whether
\* or not the keys are valid, and 10 valid keys are accepted.
C7_KeyCountLimitAmended ==
    \A p \in Procs : LET c == cs[p] IN
        /\ RestoreDone(c) =>
              ((c.raised = "ValidationError")
                 <=> (\/ PathsMissing(c) \/ Len(c.keys) > MaxKeys
                      \/ SomeKeyInvalid(c) \/ c.caught = "ValidationError"))
        /\ (RestoreDone(c) /\ ~PathsMissing(c))
              => ((c.msg = "too-many-keys") <=> Len(c.keys) > MaxKeys)

C7_Witness ==
    \E p \in Procs : LET c == cs[p] IN
        /\ RestoreDone(c) /\ Len(c.keys) = MaxKeys /\ ~SomeKeyInvalid(c)
        /\ c.raised = "none" /\ Len(c.probed) > 0

\* C8: an empty or absent path set makes saveCache and restoreCache raise
\* ValidationError, whatever the keys are.
C8_EmptyPaths ==
    \A p \in Procs : LET c == cs[p] IN
        (c.op \in {"save", "restore"} /\ PathsMissing(c))
            => (c.pc = "done" /\ c.raised = "ValidationError" /\ c.msg = "paths-required")

C8_Witness ==
    \E p \in Procs : LET c == cs[p] IN
        /\ RestoreDone(c) /\ c.hasPaths /\ c.paths = <<>> /\ ~SomeKeyInvalid(c)
        /\ Len(c.keys) <= MaxKeys
        /\ c.raised = "ValidationError" /\ c.msg = "paths-required"

\* C9: a restoreCache call lists and unpacks only locations under the prefix
\* of its own fingerprint, and never lists, selects or unpacks an entry that
\* was saved under another fingerprint.
C9_FingerprintIsolation ==
    \A p \in Procs : LET c == cs[p] IN
        c.op = "restore" =>
            /\ \A i \in DOMAIN c.probed :
                 c.probed[i].res # "failed" =>
                    /\ IsUnder(c.probed[i].dir, CallPrefix(c))
                    /\ \A j \in DOMAIN store[c.probed[i].dir] :
                         store[c.probed[i].dir][j].ver = CallVersion(c)
            /\ \A u \in c.unpacked :
                 IsUnder(u.dir, CallPrefix(c)) /\ u.file.ver = CallVersion(c)

\* C9 for keys with no ".." segment.
IsolationWithoutDotDot ==
    \A p \in Procs : LET c == cs[p] IN
        (c.op = "restore" /\ \A i \in DOMAIN c.keys : PlainKey(c.keys[i]))
        => /\ \A i \in DOMAIN c.probed :
                 c.probed[i].res # "failed" =>
                    /\ IsUnder(c.probed[i].dir, CallPrefix(c))
                    /\ \A j \in DOMAIN store[c.probed[i].dir] :
                         store[c.probed[i].dir][j].ver = CallVersion(c)
           /\ \A u \in c.unpacked :
                 IsUnder(u.dir, CallPrefix(c)) /\ u.file.ver = CallVersion(c)

\* A restore that returned its key after unpacking an entry saved under
\* another fingerprint.
PoisonedRestore ==
    \E p \in Procs : LET c == cs[p] IN
        /\ RestoreDone(c) /\ c.impl = "part000" /\ c.ret = {c.keys[1]} /\ ~c.fault
        /\ \E u \in c.unpacked : u.file.ver # CallVersion(c)
NoPoisonedRestore == ~PoisonedRestore

\* Two arguments of getCacheVersion equal in every component.
SameVersionInput(a, b) ==
    /\ a.paths = b.paths
    /\ a.hasCm = b.hasCm /\ (a.hasCm => a.cm = b.cm)
    /\ (a.win /\ ~a.xos) = (b.win /\ ~b.xos)

\* C10: two arguments of getCacheVersion that differ in the path sequence,
\* the optional compression method or the platform-marker condition yield
\* different fingerprints (the hash taken collision-free).
C10_FingerprintSensitivity ==
    \A x \in versions[1], y \in versions[2] :
        ~SameVersionInput(x.in, y.in) => x.out # y.out

\* Equal arguments give equal fingerprints, and arguments whose paths hold
\* no "|" and no component literal differ in fingerprint when they differ.
PlainPaths == {<<PathA>>, <<PathB>>, <<PathA, PathB>>, <<PathB, PathA>>}
SensitivityOnPlainPaths ==
    \A x \in versions[1], y \in versions[2] :
        /\ SameVersionInput(x.in, y.in) => x.out = y.out
        /\ (x.in.paths \in PlainPaths /\ y.in.paths \in PlainPaths
              /\ ~SameVersionInput(x.in, y.in)) => x.out # y.out

\* A saveCache call that ended because no path pattern resolved to a file.
ResolveFailed(c) == SaveDone(c) /\ c.msg = "paths-do-not-exist"

\* C11: a saveCache whose patterns resolve to no file ends with an error
\* that is not a ValidationError, propagated to the caller and not turned
\* into a warning and -1, and no step of that call, from its entry to the
\* throw, changes the backend store.
C11_PathResolveFailure ==
    [][\A p \in Procs :
          (/\ cs'[p] # cs[p] /\ cs'[p].op = "save"
           /\ cs'[p].pc = "s_resolve" \/ ResolveFailed(cs'[p]))
          => /\ store' = store
             /\ ResolveFailed(cs'[p]) =>
                   /\ cs'[p].raised = "Error"
                   /\ cs'[p].log = {}
                   /\ cs'[p].cleanup = "none"]_vars

C11_Witness ==
    \E p \in Procs : LET c == cs[p] IN
        /\ ResolveFailed(c) /\ c.raised = "Error"
        /\ DirExists(store, CallDir(c, c.keys[1]))
        /\ FileExists(store, CallDir(c, c.keys[1]), getCacheFileName(c.cm))

\* A restoreCache call whose lookup selected a key whose directory holds
\* several files and no sub-directory.
SelectedAmongSeveral(c) ==
    /\ c.op = "restore" /\ c.found # {}
    /\ DirExists(store, FoundDir(c))
    /\ Len(store[FoundDir(c)]) > 1
    /\ SubDirNames(store, FoundDir(c)) = {}

\* C12: when the directory of the selected key lists several children, the
\* child taken for the archive is the one modified last.
C12_MostRecentSelection ==
    \A p \in Procs : LET c == cs[p] IN
        SelectedAmongSeveral(c) =>
            ArchiveName(c) = store[FoundDir(c)][Len(store[FoundDir(c)])].name

\* What src/src/fsCache/index.ts selects: the child modified first.
SelectsOldestFsCache ==
    \A p \in Procs : LET c == cs[p] IN
        (SelectedAmongSeveral(c) /\ c.impl = "fsCache") =>
            ArchiveName(c) = store[FoundDir(c)][1].name

\* r is a proper string prefix of s.
IsProperPrefix(r, s) == Len(r) < Len(s) /\ SubSeq(s, 1, Len(r)) = r

\* The keys an intact archive is stored under, for the fingerprint of c.
StoredKeys(c) ==
    {s \in {in.key : in \in SaveInputs} :
        checkKey(s) = "ok"
        /\ Extractable(store, CallDir(c, s), getCacheFileName(c.cm), c.cm)}

\* C13: a restore key that is a proper prefix of a stored key, with no
\* entry under exactly a key of the list, matches the stored entry:
\* restoreCache returns a hit, not undefined.
C13_PrefixMatching ==
    \A p \in Procs : LET c == cs[p] IN
        (/\ RestoreDone(c) /\ c.msg \notin ValidationMsgs /\ ~c.fault
         /\ \A i \in DOMAIN c.keys : ~Lists(store, c, c.keys[i])
         /\ \E i \in DOMAIN c.keys : \E s \in StoredKeys(c) :
               IsProperPrefix(c.keys[i], s))
            => (c.raised = "none" /\ c.ret # {})

\* What the lookup does with such a key: the directory named exactly by the
\* key is listed, nothing matches, restoreCache returns undefined.
PrefixKeyMisses ==
    \A p \in Procs : LET c == cs[p] IN
        (/\ RestoreDone(c) /\ c.msg \notin ValidationMsgs /\ ~c.fault
         /\ \A i \in DOMAIN c.keys : ~Lists(store, c, c.keys[i]))
            => (c.raised = "none" /\ c.ret = {} /\ c.found = {})

\* C14: saveCache raises only a ValidationError or the error for paths that
\* resolve to no file; every other failure, a failure to create the
\* destination directory included, is a warning and the value -1.
C14_SaveRaisesOnlyTwoCases ==
    \A p \in Procs : LET c == cs[p] IN
        SaveDone(c) =>
            /\ c.raised # "none" => (c.raised = "ValidationError" \/ ResolveFailed(c))
            /\ (c.raised = "none" /\ c.cacheId # 1) =>
                  <<"warning", "Failed to save">> \in c.log

\* What saveCache does: mkdir is called outside the try block and its
\* failure propagates; inside the try block an error named ValidationError
\* is rethrown and any other is logged, as info for ReserveCacheError.
SaveRaisesThreeCases ==
    \A p \in Procs : LET c == cs[p] IN
        SaveDone(c) =>
            /\ c.raised # "none" =>
                  \/ c.raised = "ValidationError"
                  \/ ResolveFailed(c)
                  \/ c.raised = "Error" /\ c.msg = "mkdir" /\ c.log = {}
            /\ (c.raised = "none" /\ c.cacheId # 1) =>
                  \/ <<"warning", "Failed to save">> \in c.log
                  \/ c.caught = "ReserveCacheError" /\ <<"info", "Failed to save">> \in c.log

\* A saveCache that raised because the destination directory could not be
\* created.
MkdirFailureRaised ==
    \E p \in Procs : LET c == cs[p] IN
        SaveDone(c) /\ c.msg = "mkdir" /\ c.raised = "Error" /\ c.log = {}

\* C15: once validation has passed, restoreCache raises for no failure but
\* an error named ValidationError: when no key is selected, or a key is
\* selected and the archive is missing, the size query fails or extraction
\* fails, also while a saveCache on the same key is in progress, it records
\* a warning and returns undefined.
C15_RestoreNeverRaises ==
    \A p \in Procs : LET c == cs[p] IN
        (RestoreDone(c) /\ c.msg \notin ValidationMsgs /\ c.caught # "ValidationError")
            => /\ c.raised = "none"
               /\ c.unpacked = {} =>
                     (c.ret = {} /\ <<"warning", "Failed to restore">> \in c.log)
               /\ c.unpacked # {} => (c.ret # {} /\ c.log = {})

\* A restoreCache that selected a key whose saveCache was still packaging,
\* found no finished archive, logged a warning and returned undefined.
C15_Witness ==
    \E q \in Savers : LET c == cs[Restorer] IN
        /\ RestoreDone(c) /\ ~c.fault /\ c.found # {} /\ c.caught = "Error"
        /\ c.raised = "none" /\ c.ret = {}
        /\ <<"warning", "Failed to restore">> \in c.log
        /\ cs[q].op = "save" /\ cs[q].pc \in {"s_tar", "s_tar_run"}
        /\ CallDir(cs[q], cs[q].keys[1]) = FoundDir(c)

\* An intact archive is stored under the key, for the fingerprint of c.
Intact(st, c, key) ==
    /\ Lists(st, c, key)
    /\ Extractable(st, CallDir(c, key), getCacheFileName(c.cm), c.cm)

\* C16: if a key of the combined list has an intact archive stored under
\* the fingerprint of the call and the codec does not fail, restoreCache
\* returns a key, also when a key before it has a directory that is not
\* empty and holds no usable archive.
C16_FallbackCompleteness ==
    \A p \in Procs : LET c == cs[p] IN
        (/\ RestoreDone(c) /\ c.msg \notin ValidationMsgs /\ ~c.fault
         /\ \E i \in DOMAIN c.keys : Intact(store, c, c.keys[i]))
            => (c.raised = "none" /\ c.ret # {})

\* What src/unnamed/part_000 does: the first key whose directory lists a
\* child decides; restoreCache returns it when its archive is intact and
\* undefined when it is not, whatever the later keys hold.
FirstListedKeyDecides ==
    \A p \in Procs : LET c == cs[p] IN
        (/\ RestoreDone(c) /\ c.msg \notin ValidationMsgs /\ ~c.fault
         /\ c.impl = "part000")
            => ((c.ret # {}) <=>
                  \E i \in DOMAIN c.keys :
                      /\ Intact(store, c, c.keys[i])
                      /\ \A j \in 1..(i - 1) : ~Lists(store, c, c.keys[j]))

\* A restoreCache of src/unnamed/part_000 that returned undefined although
\* a later key of its list has an intact archive.
BlockedFallback ==
    \E p \in Procs : LET c == cs[p] IN
        /\ RestoreDone(c) /\ ~c.fault /\ c.impl = "part000"
        /\ c.found = {2} /\ c.ret = {} /\ Len(c.keys) = 3
        /\ Intact(store, c, c.keys[3])

\* Arguments for which the specification requires a ValidationError.
InvalidInputs(c) ==
    \/ PathsMissing(c)
    \/ SomeKeyInvalid(c)
    \/ c.op = "restore" /\ Len(c.keys) > MaxKeys

\* C17: a saveCache or restoreCache call with an empty path set, an invalid
\* key or more than 10 keys ends in its first step with a ValidationError:
\* the store is as it was, no directory was listed, nothing was created,
\* written, deleted or logged.
C17_ValidationBeforeBackend ==
    [][\A p \in Procs :
          (/\ cs'[p] # cs[p] /\ cs'[p].op \in {"save", "restore"}
           /\ InvalidInputs(cs'[p]))
          => /\ store' = store
             /\ cs'[p].pc = "done"
             /\ cs'[p].raised = "ValidationError"
             /\ cs'[p].msg \in ValidationMsgs
             /\ cs'[p].probed = <<>>
             /\ cs'[p].cleanup = "none"
             /\ cs'[p].log = {}]_vars

\* A restoreCache with a key holding a comma, rejected while a stored
\* archive sat under its first key.
C17_Witness ==
    \E p \in Procs : LET c == cs[p] IN
        /\ RestoreDone(c) /\ c.keys = <<BuildA, CommaKey>>
        /\ c.raised = "ValidationError" /\ c.msg = "key-has-comma"
        /\ c.probed = <<>>
        /\ Intact(store, c, BuildA)

\* The restoreCache before this call, with the same module and arguments,
\* returned a key, with no fault of the codec or of the file system.
AfterOwnHit(c) ==
    \E s \in c.after : /\ s.op = "restore" /\ s.ret # {} /\ ~s.fault
                       /\ s.impl = c.impl /\ s.paths = c.paths /\ s.keys = c.keys
                       /\ s.cm = c.cm /\ s.win = c.win /\ s.xos = c.xos

\* C18: no step of a restoreCache call changes the store, whatever the
\* outcome of the call, and a restoreCache repeated right after one that
\* returned a key returns the same key, when neither call met a fault of
\* the codec or of the file system.
C18_RestoreReadOnly ==
    [][\A p \in Procs :
          (cs'[p] # cs[p] /\ cs'[p].op = "restore")
          => /\ store' = store
             /\ (RestoreDone(cs'[p]) /\ AfterOwnHit(cs'[p]) /\ ~cs'[p].fault)
                  => /\ cs'[p].raised = "none"
                     /\ \A s \in cs'[p].after : cs'[p].ret = s.ret]_vars

\* A restoreCache that returned a key right after one that returned it.
C18_Witness ==
    \E p \in Procs : LET c == cs[p] IN
        /\ RestoreDone(c) /\ AfterOwnHit(c) /\ ~c.fault
        /\ c.ret = {c.keys[1]} /\ c.unpacked # {}
        /\ Intact(store, c, c.keys[1])

\* A saveCache call that ended after entering its try block.
SaveTried(c) ==
    SaveDone(c) /\ c.msg \notin (ValidationMsgs \cup {"paths-do-not-exist", "mkdir"})

\* C19: the finally clause of saveCache attempts its unlink after a
\* successful packaging, after a suppressed failure and after a rethrown
\* ValidationError; a failed unlink is logged at debug level only, and the
\* value returned or the error propagated is what the try and catch
\* clauses left, whether the unlink failed or not.
C19_CleanupSoft ==
    \A p \in Procs : LET c == cs[p] IN
        SaveTried(c) =>
            /\ c.cleanup \in {"unlinked", "failed"}
            /\ (c.cleanup = "failed") <=> (<<"debug", "Failed to delete">> \in c.log)
            /\ c.caught = "none" => (c.raised = "none" /\ c.cacheId = 1)
            /\ c.caught = "ValidationError" =>
                  (c.raised = "ValidationError" /\ c.msg = "rethrown")
            /\ c.caught \notin {"none", "ValidationError"} =>
                  (c.raised = "none" /\ c.cacheId = -1)

\* A saveCache that rethrew a ValidationError of the codec although the
\* unlink of its finally clause failed.
C19_Witness ==
    \E p \in Procs : LET c == cs[p] IN
        /\ SaveTried(c) /\ c.caught = "ValidationError" /\ c.cleanup = "failed"
        /\ c.raised = "ValidationError"
        /\ <<"debug", "Failed to delete">> \in c.log

\* A saveCache that returned 1, and one that returned -1, although the
\* unlink of the finally clause failed.
CleanupFailedAfterSuccess ==
    \E p \in Procs : LET c == cs[p] IN
        SaveTried(c) /\ c.cleanup = "failed" /\ c.raised = "none" /\ c.cacheId = 1
CleanupFailedAfterSoftFailure ==
    \E p \in Procs : LET c == cs[p] IN
        /\ SaveTried(c) /\ c.cleanup = "failed" /\ c.raised = "none" /\ c.cacheId = -1
        /\ <<"warning", "Failed to save">> \in c.log

\* Two saveCache calls of one module for the same paths and key that both
\* returned 1.
BothSaved(a, b) ==
    /\ SaveDone(cs[a]) /\ SaveDone(cs[b])
    /\ cs[a].raised = "none" /\ cs[a].cacheId = 1
    /\ cs[b].raised = "none" /\ cs[b].cacheId = 1
    /\ cs[a].impl = cs[b].impl /\ cs[a].paths = cs[b].paths
    /\ cs[a].keys = cs[b].keys /\ cs[a].cm = cs[b].cm

\* A restoreCache of the same module for that key, begun after both ended.
RestoredAfter(c, a, b) ==
    /\ RestoreDone(c) /\ ~c.fault
    /\ c.impl = cs[a].impl /\ c.paths = cs[a].paths /\ c.cm = cs[a].cm
    /\ c.keys[1] = cs[a].keys[1]
    /\ cs[a].endseq < c.seq /\ cs[b].endseq < c.seq

\* The store holds one finished archive for the key of call a.
OneFinishedArchive(a) ==
    LET d == CallDir(cs[a], cs[a].keys[1])
        f == getCacheFileName(cs[a].cm)
    IN /\ FileExists(store, d, f)
       /\ Cardinality({i \in 1..Len(store[d]) : store[d][i].name = f}) = 1
       /\ FileAt(store, d, f).ok

\* C20: when two saveCache calls for the same paths and key both return 1,
\* run one after the other or interleaved, the store then holds exactly one
\* archive for the key, whole as one of the saves wrote it, and a
\* restoreCache for the key that follows returns the key.
C20_LastWriterWins ==
    \A a \in Savers, b \in Savers :
        (a # b /\ BothSaved(a, b)) =>
            /\ OneFinishedArchive(a)
            /\ RestoredAfter(cs[Restorer], a, b) =>
                  cs[Restorer].ret = {cs[a].keys[1]}

\* The same for two saves whose tar runs did not write the archive at the
\* same time, in src/unnamed/part_000.
LastWriterWinsWithoutRace ==
    \A a \in Savers, b \in Savers :
        (/\ a # b /\ BothSaved(a, b) /\ cs[a].impl = "part000"
         /\ ~cs[a].raced /\ ~cs[b].raced) =>
            /\ OneFinishedArchive(a)
            /\ RestoredAfter(cs[Restorer], a, b) =>
                  cs[Restorer].ret = {cs[a].keys[1]}

\* Two saves that both returned 1 and left an unfinished archive, and a
\* restoreCache after them that returned undefined.
RacedArchive ==
    \E a \in Savers, b \in Savers :
        /\ a # b /\ BothSaved(a, b) /\ ~OneFinishedArchive(a)
        /\ RestoredAfter(cs[Restorer], a, b)
        /\ cs[Restorer].ret = {}

\* Two saveCache calls that both returned 1, made with different keys.
SavedDifferentKeys(a, b) ==
    /\ SaveDone(cs[a]) /\ SaveDone(cs[b])
    /\ cs[a].raised = "none" /\ cs[a].cacheId = 1
    /\ cs[b].raised = "none" /\ cs[b].cacheId = 1
    /\ cs[a].keys[1] # cs[b].keys[1]

\* The saveCache call that takes the step.
Acting(p) == cs[p].op = "save" /\ cs'[p].pc # cs[p].pc

\* A step creates directories only on the way to the location of the call
\* that takes it, and changes the files of that location only.
OwnLocationStep ==
    \A d \in DOMAIN store' :
        /\ d \notin DOMAIN store =>
              \E p \in Savers :
                  Acting(p) /\ d \in Prefixes(CallDir(cs[p], cs[p].keys[1]))
        /\ (d \in DOMAIN store /\ store'[d] # store[d]) =>
              \E p \in Savers :
                  Acting(p) /\ d = CallDir(cs[p], cs[p].keys[1])

\* After two saves with different keys returned 1, the store holds the
\* finished archive of each, and a restoreCache for either key begun after
\* both returns that key.
EachKeyRestorable ==
    \A a \in Savers, b \in Savers :
        (a # b /\ SavedDifferentKeys(a, b)) =>
            /\ OneFinishedArchive(a)
            /\ RestoredAfter(cs[Restorer], a, b) =>
                  cs[Restorer].ret = {cs[a].keys[1]}

\* C21: two saveCache calls with different keys, interleaved in any way,
\* each create, write and delete files only inside the location of their
\* own key, and once both returned 1 each key is restored by a restoreCache
\* made with it.
C21_DifferentKeysIndependent == [][OwnLocationStep]_vars /\ []EachKeyRestorable

\* Every step of every saveCache call stays inside the location of its key.
SavesStayInOwnLocation == [][OwnLocationStep]_vars

\* The second half of C21 for two saves of src/unnamed/part_000 whose keys
\* name different directories.
DifferentDirsRestorable ==
    \A a \in Savers, b \in Savers :
        (/\ a # b /\ SavedDifferentKeys(a, b)
         /\ cs[a].impl = "part000" /\ cs[b].impl = "part000"
         /\ CallDir(cs[a], cs[a].keys[1]) # CallDir(cs[b], cs[b].keys[1])) =>
            /\ OneFinishedArchive(a)
            /\ RestoredAfter(cs[Restorer], a, b) =>
                  cs[Restorer].ret = {cs[a].keys[1]}

\* Two saves with different keys that name one directory both returned 1
\* and left an unfinished archive; the restoreCache after them returned
\* undefined.
AliasedKeysRaced ==
    \E a \in Savers, b \in Savers :
        /\ a # b /\ SavedDifferentKeys(a, b)
        /\ cs[a].impl = "part000" /\ cs[b].impl = "part000"
        /\ CallDir(cs[a], cs[a].keys[1]) = CallDir(cs[b], cs[b].keys[1])
        /\ ~OneFinishedArchive(a)
        /\ RestoredAfter(cs[Restorer], a, b)
        /\ cs[Restorer].ret = {}

\* The components getCacheVersion joins for the arguments of a call, and
\* whether "windows-only" was added to them: it stands between the
\* compression method and the salt.
ComponentsOf(c) == VersionComponents(c.paths, TRUE, c.cm, c.win, c.xos)
MarkerAdded(c) ==
    /\ Len(ComponentsOf(c)) = Len(c.paths) + 3
    /\ ComponentsOf(c)[Len(c.paths) + 2] = WindowsOnly
MarkerAbsent(c) == Len(ComponentsOf(c)) = Len(c.paths) + 2

\* The call c follows a save s that returned 1 for the same paths,
\* compression method and key.
FollowsSave(c, s) ==
    /\ s \in c.after /\ s.op = "save"
    /\ s.paths = c.paths /\ s.cm = c.cm /\ s.keys = c.keys

\* s and c were made on non-Windows platforms, or one on Windows with
\* enableCrossOsArchive and the other on a non-Windows platform.
CrossPlatform(s, c) ==
    \/ ~s.win /\ ~c.win
    \/ s.win /\ s.xos /\ ~c.win
    \/ ~s.win /\ c.win /\ c.xos

SigVersion(s) == getCacheVersion(s.paths, TRUE, s.cm, s.win, s.xos)
SigDir(s) == KeyDir(getPrefix(s.paths, s.cm, s.win, s.xos), s.key)

\* C22: getCacheVersion adds "windows-only" exactly when the platform is
\* win32 and enableCrossOsArchive is false.  Two calls for the same paths
\* and compression method made on non-Windows platforms, whatever their
\* enableCrossOsArchive, or one on Windows with enableCrossOsArchive and one
\* on a non-Windows platform, have the same fingerprint, and a call with the
\* marker and one without have different fingerprints.  A restoreCache that
\* follows a successful saveCache of the other platform probes the directory
\* the save wrote and, when no fault of the codec or the file system occurs,
\* its lookup finds the entry; src/unnamed/part_000 then returns the key.
C22_PlatformMarker ==
    \A p \in Procs : LET c == cs[p] IN
        c.op \in {"save", "restore"} =>
            /\ IF c.win /\ ~c.xos THEN MarkerAdded(c) ELSE MarkerAbsent(c)
            /\ \A s \in c.after :
                 FollowsSave(c, s) =>
                    /\ ((s.win /\ ~s.xos) # (c.win /\ ~c.xos))
                          => SigVersion(s) # CallVersion(c)
                    /\ CrossPlatform(s, c) =>
                          /\ SigVersion(s) = CallVersion(c)
                          /\ c.op = "restore" =>
                                /\ \A i \in DOMAIN c.probed : c.probed[i].dir = SigDir(s)
                                /\ (RestoreDone(c) /\ ~c.fault) =>
                                      /\ c.found = {1}
                                      /\ (s.impl = "part000" /\ c.impl = "part000")
                                            => (c.raised = "none" /\ c.ret = {c.keys[1]})

\* An entry saved on Windows with enableCrossOsArchive was restored on a
\* non-Windows platform, and one saved on a non-Windows platform was
\* restored on Windows with enableCrossOsArchive.
RestoredFromWindows(c) ==
    /\ RestoreDone(c) /\ ~c.fault /\ c.ret = {c.keys[1]} /\ ~c.win
    /\ \E s \in c.after : FollowsSave(c, s) /\ s.win /\ s.xos
RestoredOnWindows(c) ==
    /\ RestoreDone(c) /\ ~c.fault /\ c.ret = {c.keys[1]} /\ c.win /\ c.xos
    /\ \E s \in c.after : FollowsSave(c, s) /\ ~s.win
C22_Witness ==
    \E p \in Procs : RestoredFromWindows(cs[p])

\* The same in the other direction.
RestoredOnWindowsReached ==
    \E p \in Procs : RestoredOnWindows(cs[p])

\* A restoreCache on Windows without enableCrossOsArchive does not find the
\* entry a non-Windows platform has just saved on an empty store.
WindowsOnlyMisses ==
    \E p \in Procs : LET c == cs[p] IN
        /\ RestoreDone(c) /\ ~c.fault /\ c.win /\ ~c.xos /\ c.found = {}
        /\ \E s \in c.after : FollowsSave(c, s) /\ ~s.win

\* q holds the paths of ps in another order.
Count(ps, x) == Cardinality({i \in DOMAIN ps : ps[i] = x})
Permuted(ps, q) ==
    /\ Len(ps) = Len(q) /\ ps # q
    /\ \A i \in DOMAIN ps : Count(ps, ps[i]) = Count(q, ps[i])

\* The restore c follows a save s that returned 1 for the same key,
\* compression method and platform, with the paths in another order.
FollowsPermutedSave(c, s) ==
    /\ c.op = "restore" /\ s \in c.after /\ s.op = "save"
    /\ Permuted(s.paths, c.paths)
    /\ s.keys = c.keys /\ s.cm = c.cm /\ s.win = c.win /\ s.xos = c.xos

NoBar(ps) == \A i \in DOMAIN ps : \A j \in DOMAIN ps[i] : ps[i][j] # Bar

\* C23: a restoreCache made with the paths of a successful saveCache in
\* another order (two distinct paths at least), for the same key, has a
\* different fingerprint, and neither probes the directory the save wrote
\* nor unpacks its archive.
C23_PathOrder ==
    \A p \in Procs : LET c == cs[p] IN
        \A s \in c.after :
            FollowsPermutedSave(c, s) =>
                /\ SigVersion(s) # CallVersion(c)
                /\ \A i \in DOMAIN c.probed : c.probed[i].dir # SigDir(s)
                /\ \A u \in c.unpacked : u.dir # SigDir(s)

\* The same for paths that hold no "|".
PathOrderOnPlainPaths ==
    \A p \in Procs : LET c == cs[p] IN
        \A s \in c.after :
            (FollowsPermutedSave(c, s) /\ NoBar(c.paths)) =>
                /\ SigVersion(s) # CallVersion(c)
                /\ \A i \in DOMAIN c.probed : c.probed[i].dir # SigDir(s)
                /\ \A u \in c.unpacked : u.dir # SigDir(s)

\* A restoreCache returned the key after unpacking the archive that a save
\* with the paths in another order wrote.
PermutedPathsRestored ==
    \E p \in Procs : LET c == cs[p] IN
        /\ RestoreDone(c) /\ ~c.fault /\ c.ret = {c.keys[1]}
        /\ \E s \in c.after :
             /\ FollowsPermutedSave(c, s)
             /\ \E u \in c.unpacked : u.dir = SigDir(s) /\ u.file.ver = SigVersion(s)

\* A restoreCache with plain paths in another order than the save before
\* it missed.
PermutedPlainPathsMiss ==
    \E p \in Procs : LET c == cs[p] IN
        /\ RestoreDone(c) /\ ~c.fault /\ c.found = {} /\ NoBar(c.paths)
        /\ \E s \in c.after : FollowsPermutedSave(c, s)

=============================================================================
